---- MODULE Spec2Model ----
(***************************************************************************)
(* Intake control of eklipsse/Vex (PROS, VEX V5).                          *)
(*                                                                         *)
(* The repository ships several variants of the same program:              *)
(*   "A"  src/unnamed/part_000: monitor without grace period, started once *)
(*        by opcontrol, hold-to-run R1 button;                             *)
(*   "B"  HighStakes-MonitorIntake-Pros.cpp lines 1-191: monitor with a    *)
(*        spin-up grace period and a reversing flag, R1 / A toggles,       *)
(*        startMonitoringTask / stopMonitoringTask;                        *)
(*   "C"  the same file, lines 193-332: the monitor of B with other        *)
(*        constants, hold-to-run R1 with start / stop written inline;      *)
(*   "D"  the same file, lines 334-484: the colour sorter.                 *)
(* Each variant is one specification over the same variables; the variable *)
(* variant says which program runs and never changes.                      *)
(*                                                                         *)
(* Time is in milliseconds.  pros::delay(n) puts n in the task's sleep     *)
(* field; Tick lets time pass up to the next wake-up, when every task is   *)
(* asleep.  The motor's actual velocity is an input: in the plain          *)
(* specifications it takes any value of ActualVelocities at every Tick.    *)
(***************************************************************************)
EXTENDS Integers, Sequences, FiniteSets, TLC

(* ------------------------------ bounds -------------------------------- *)
\* monitor tasks a run may create (startMonitoringTask calls that spawn)
MaxStarts == 2
\* largest hue the sensor input is drawn from
MaxHue == 360
\* spacing of the hues the sensor shows while the colour-sort task runs
HueStep == 30
\* times the load on the intake changes in a run of the motor model
MaxJams == 2

(* ------------------------- program constants -------------------------- *)
SPIN_UP_GRACE_MS_MS == 1000
DESIRED_VELOCITY == 600
VELOCITY_THRESHOLD == 50
REVERSE_DEGREES == 90
REVERSE_SPEED == -100
\* variants A and C
desired_velocity == 200
velocity_threshold == 50
reverse_degrees == 90
reverse_speed == -100
\* pros::delay(200) of variant C's grace branch
SpinUpDelayC == 200
\* pros::delay(20) closing the monitor loop, pros::delay(10) of its wait
\* loop, pros::delay(20) closing the operator loop
MonitorDelay == 20
WaitDelay == 10
OpDelay == 20
\* colorSortTask
TRAVEL_DELAY == 100
STOP_DELAY == 200
INTAKE_SPEED == 100
\* pros::delay(50) closing the colour-sort loop
SortDelay == 50
\* intake.move_velocity(600) of the colour sorter's opcontrol
SortOpVelocity == 600

NULL == 0

Abs(x) == IF x < 0 THEN -x ELSE x
Min(a, b) == IF a < b THEN a ELSE b
SetMin(S) == CHOOSE x \in S : \A y \in S : x <= y

VARIABLES
    variant,              \* which program runs: "A", "B", "C" or "D"
    cmd,                  \* the motor's last command (what the brain asked of it)
    actual,               \* the motor's actual velocity
    intake_monitor_task,  \* the global task pointer; NULL or a task id
    mon,                  \* the monitor tasks ever created, by id
    created,              \* number of monitor tasks created so far
    opPc, opSleep,        \* the operator loop's position and remaining delay
    intake_direction,     \* variant B's toggle state
    hist,                 \* per monitor: time since start, episode log
    lastTick,             \* the last stall check a monitor made
    stopped,              \* ids on which stopMonitoringTask has returned
    lastStart,            \* what the last start call did
    hue, detectedColor,   \* the colour sensor's reading and its class
    jam, jams,            \* what blocks the intake, and how often that changed
    manual,               \* the operator loop's last button value and command
    ALLIANCE_COLOR,       \* the colour sorter's configured alliance
    colorSortTaskHandle,  \* the colour sorter's task pointer
    sortPc, sortSleep,    \* the colour-sort task's position and remaining delay
    sortHist              \* the colour sorter's current eject: times, commands

vars == <<variant, cmd, actual, intake_monitor_task, mon, created, opPc,
          opSleep, intake_direction, hist, lastTick, stopped, lastStart,
          hue, detectedColor, jam, jams, manual, ALLIANCE_COLOR,
          colorSortTaskHandle, sortPc, sortSleep, sortHist>>

envVars == <<hue, detectedColor, jam, jams>>
sortVars == <<ALLIANCE_COLOR, colorSortTaskHandle, sortPc, sortSleep, sortHist>>
restVars == <<envVars, sortVars, manual>>
taskVars == <<intake_monitor_task, mon, created, hist, stopped, lastStart>>

TaskIds == 1 .. MaxStarts

\* the velocities the sensor is sampled at: reversing, either side of the
\* stall threshold in both directions, either side of the wait loop's test
\* (stopped, 1, 2), stalled, and at speed
ActualVelocities ==
    {REVERSE_SPEED, -VELOCITY_THRESHOLD, 1 - VELOCITY_THRESHOLD, -2, 0, 1, 2,
     10, VELOCITY_THRESHOLD - 1, VELOCITY_THRESHOLD, desired_velocity,
     DESIRED_VELOCITY}

(* ------------------------------ the motor ----------------------------- *)
\* milliseconds a relative move of p degrees takes at v rpm (6 degrees per
\* second per rpm)
TravelMs(p, v) == (Abs(p) * 1000) \div (6 * Abs(v))

\* the command the motor holds: its kind, target position offset, target
\* velocity, and the travel time the move still needs
MoveVelocity(v) == [kind |-> "velocity", pos |-> 0, vel |-> v, left |-> 0]
MoveRelative(p, v) ==
    [kind |-> "relative", pos |-> p, vel |-> v, left |-> TravelMs(p, v)]
get_target_velocity == cmd.vel
get_actual_velocity == actual
is_stopped == actual = 0

\* no eject under way: time since the classification, the sorter's commands
\* since it, the motor's command at it, and whether opcontrol had set the
\* intake speed by then
NoSortHist ==
    [age |-> 0, log |-> <<>>, before |-> MoveVelocity(0), opReady |-> FALSE]

(* ----------------------- per-variant constants ------------------------ *)
Desired == IF variant = "B" THEN DESIRED_VELOCITY ELSE desired_velocity
Threshold == IF variant = "B" THEN VELOCITY_THRESHOLD ELSE velocity_threshold
ReverseDegrees == IF variant = "B" THEN REVERSE_DEGREES ELSE reverse_degrees
ReverseSpeed == IF variant = "B" THEN REVERSE_SPEED ELSE reverse_speed
SpinUpGrace == IF variant = "B" THEN SPIN_UP_GRACE_MS_MS ELSE SpinUpDelayC

(* --------------------------- monitor tasks ---------------------------- *)
NoTask ==
    [live |-> FALSE, pc |-> "none", sleep |-> 0,
     spin_up_grace |-> FALSE, reversing |-> FALSE]

\* a task as pros::Task's constructor leaves it: runnable at the top of
\* intake_monitor_task_function, its locals freshly initialised
NewTask_GraceOff ==
    [live |-> TRUE, pc |-> "loop", sleep |-> 0,
     spin_up_grace |-> FALSE, reversing |-> FALSE]
NewTask ==
    [live |-> TRUE, pc |-> "loop", sleep |-> 0,
     spin_up_grace |-> TRUE, reversing |-> FALSE]

NoHist == [age |-> 0, await |-> FALSE, log |-> <<>>, tgt |-> 0]
NoTick == [by |-> NULL, cur |-> 0, tgt |-> 0, stalled |-> FALSE, pending |-> FALSE]

\* variant A's task function has no locals: the two flags stay FALSE
NewTaskA ==
    [live |-> TRUE, pc |-> "loop", sleep |-> 0,
     spin_up_grace |-> FALSE, reversing |-> FALSE]

LiveIds == {i \in TaskIds : mon[i].live}
Recovery == {"reverse", "wait", "resume"}

\* if (intake_monitor_task == nullptr) intake_monitor_task = new pros::Task(...)
startMonitoringTask_NoCheck ==
    IF created < MaxStarts
    THEN /\ created' = created + 1
         /\ intake_monitor_task' = created + 1
         /\ mon' = [mon EXCEPT ![created + 1] = NewTask]
         /\ hist' = [hist EXCEPT ![created + 1] = NoHist]
         /\ lastStart' = IF intake_monitor_task = NULL THEN "created" ELSE "second"
         /\ UNCHANGED stopped
    ELSE /\ lastStart' = "noop"
         /\ UNCHANGED <<intake_monitor_task, mon, created, hist, stopped>>
startMonitoringTask ==
    IF intake_monitor_task = NULL
    THEN /\ created' = created + 1
         /\ intake_monitor_task' = created + 1
         /\ mon' = [mon EXCEPT ![created + 1] = NewTask]
         /\ hist' = [hist EXCEPT ![created + 1] = NoHist]
         /\ lastStart' = "created"
         /\ UNCHANGED stopped
    ELSE /\ lastStart' = "noop"
         /\ UNCHANGED <<intake_monitor_task, mon, created, hist, stopped>>

\* pros::Task::remove() deletes the task from the scheduler at once,
\* wherever it is; the caller is another task
TaskRemove_Signal(t) == t
TaskRemove(t) == NoTask

\* if (intake_monitor_task != nullptr) { remove(); delete; = nullptr; }
stopMonitoringTask ==
    IF intake_monitor_task # NULL
    THEN /\ mon' = [mon EXCEPT ![intake_monitor_task] = TaskRemove(@)]
         /\ stopped' = stopped \cup {intake_monitor_task}
         /\ hist' = [hist EXCEPT ![intake_monitor_task] = NoHist]
         /\ intake_monitor_task' = NULL
         /\ UNCHANGED <<created, lastStart>>
    ELSE UNCHANGED taskVars

(* ---------------- the monitor of variants B and C --------------------- *)
Ready(i) == mon[i].live /\ mon[i].sleep = 0

Stuck_NoTargetCheck(reversing, current_velocity, target) ==
    ~reversing /\ Abs(current_velocity) < Threshold
Stuck_AtThreshold(reversing, current_velocity, target) ==
    ~reversing /\ Abs(current_velocity) <= Threshold /\ target # 0
\* the stall condition of the monitor's if
Stuck(reversing, current_velocity, target) ==
    ~reversing /\ Abs(current_velocity) < Threshold /\ target # 0

\* top of the loop: read the velocity; first iteration sleeps the grace
\* period and continues; otherwise evaluate the stall condition
MonLoop(i) ==
    /\ variant \in {"B", "C"}
    /\ Ready(i) /\ mon[i].pc = "loop"
    /\ IF mon[i].spin_up_grace
       THEN /\ mon' = [mon EXCEPT ![i].sleep = SpinUpGrace,
                                  ![i].spin_up_grace = FALSE]
            /\ UNCHANGED <<lastTick, hist>>
       ELSE LET current_velocity == get_actual_velocity
                stuck == Stuck(mon[i].reversing, current_velocity,
                               get_target_velocity)
            IN  /\ mon' = [mon EXCEPT ![i] =
                             IF stuck THEN [@ EXCEPT !.pc = "reverse"]
                             ELSE [@ EXCEPT !.sleep = MonitorDelay]]
                /\ lastTick' = [by |-> i, cur |-> current_velocity,
                                tgt |-> get_target_velocity,
                                stalled |-> stuck,
                                pending |-> hist[i].await]
                /\ hist' = [hist EXCEPT ![i] =
                              IF stuck THEN [@ EXCEPT !.await = TRUE, !.log = <<>>,
                                                 !.tgt = get_target_velocity]
                              ELSE [@ EXCEPT !.await = FALSE]]
    /\ UNCHANGED <<variant, cmd, actual, intake_monitor_task, created, opPc,
                   opSleep, intake_direction, stopped, lastStart, restVars>>

MonReverse_Forward(i) ==
    /\ variant \in {"B", "C"}
    /\ Ready(i) /\ mon[i].pc = "reverse"
    /\ cmd' = MoveRelative(ReverseDegrees, ReverseSpeed)
    /\ mon' = [mon EXCEPT ![i].reversing = TRUE, ![i].pc = "wait"]
    /\ hist' = [hist EXCEPT ![i].log = Append(@, cmd')]
    /\ UNCHANGED <<variant, actual, intake_monitor_task, created, opPc, opSleep,
                   intake_direction, lastTick, stopped, lastStart, restVars>>
\* reversing = true; intake_motor.move_relative(-REVERSE_DEGREES, REVERSE_SPEED)
MonReverse(i) ==
    /\ variant \in {"B", "C"}
    /\ Ready(i) /\ mon[i].pc = "reverse"
    /\ cmd' = MoveRelative(-ReverseDegrees, ReverseSpeed)
    /\ mon' = [mon EXCEPT ![i].reversing = TRUE, ![i].pc = "wait"]
    /\ hist' = [hist EXCEPT ![i].log = Append(@, cmd')]
    /\ UNCHANGED <<variant, actual, intake_monitor_task, created, opPc, opSleep,
                   intake_direction, lastTick, stopped, lastStart, restVars>>

\* while (abs(intake_motor.get_actual_velocity()) > 1) pros::delay(10);
MonWait(i) ==
    /\ variant \in {"B", "C"}
    /\ Ready(i) /\ mon[i].pc = "wait"
    /\ mon' = [mon EXCEPT ![i] =
                 IF Abs(get_actual_velocity) > 1
                 THEN [@ EXCEPT !.sleep = WaitDelay]
                 ELSE [@ EXCEPT !.pc = "resume"]]
    /\ UNCHANGED <<variant, cmd, actual, intake_monitor_task, created, opPc,
                   opSleep, intake_direction, hist, lastTick, stopped,
                   lastStart, restVars>>

\* intake_motor.move_velocity(DESIRED_VELOCITY); reversing = false;
\* then the loop's closing pros::delay(20)
MonResume(i) ==
    /\ variant \in {"B", "C"}
    /\ Ready(i) /\ mon[i].pc = "resume"
    /\ cmd' = MoveVelocity(Desired)
    /\ mon' = [mon EXCEPT ![i].reversing = FALSE, ![i].pc = "loop",
                          ![i].sleep = MonitorDelay]
    /\ hist' = [hist EXCEPT ![i].log = Append(@, cmd')]
    /\ UNCHANGED <<variant, actual, intake_monitor_task, created, opPc, opSleep,
                   intake_direction, lastTick, stopped, lastStart, restVars>>

Monitor(i) == MonLoop(i) \/ MonReverse(i) \/ MonWait(i) \/ MonResume(i)

(* ------------------- the operator loop of variant B ------------------- *)
\* if (new press of R1): move_velocity(0) when FORWARD, else
\* move_velocity(DESIRED_VELOCITY)
OpB_R1 ==
    /\ variant = "B" /\ opPc = "r1" /\ opSleep = 0
    /\ \E press \in BOOLEAN :
         IF press
         THEN /\ intake_direction # "FORWARD" /\ intake_monitor_task = NULL
                   => created < MaxStarts
              /\ cmd' = MoveVelocity(IF intake_direction = "FORWARD" THEN 0
                                     ELSE DESIRED_VELOCITY)
              /\ manual' = [pressed |-> TRUE, vel |-> cmd'.vel]
              /\ opPc' = "r1_task"
         ELSE /\ opPc' = "a"
              /\ UNCHANGED <<cmd, manual>>
    /\ UNCHANGED <<variant, actual, opSleep, intake_direction, lastTick,
                   taskVars, envVars, sortVars>>

\* intake_direction = STOPPED; stopMonitoringTask();  or
\* intake_direction = FORWARD; startMonitoringTask();
OpB_R1Task ==
    /\ variant = "B" /\ opPc = "r1_task" /\ opSleep = 0
    /\ IF intake_direction = "FORWARD"
       THEN intake_direction' = "STOPPED" /\ stopMonitoringTask
       ELSE intake_direction' = "FORWARD" /\ startMonitoringTask
    /\ opPc' = "a"
    /\ UNCHANGED <<variant, cmd, actual, opSleep, lastTick, restVars>>

\* if (new press of A): move_velocity(0) when BACKWARD, else
\* move_velocity(-DESIRED_VELOCITY); without a press the loop's delay(20)
OpB_A ==
    /\ variant = "B" /\ opPc = "a" /\ opSleep = 0
    /\ \E press \in BOOLEAN :
         IF press
         THEN /\ cmd' = MoveVelocity(IF intake_direction = "BACKWARD" THEN 0
                                     ELSE -DESIRED_VELOCITY)
              /\ manual' = [pressed |-> TRUE, vel |-> cmd'.vel]
              /\ opPc' = "a_task"
              /\ UNCHANGED opSleep
         ELSE /\ opPc' = "r1"
              /\ opSleep' = OpDelay
              /\ UNCHANGED <<cmd, manual>>
    /\ UNCHANGED <<variant, actual, intake_direction, lastTick, taskVars,
                   envVars, sortVars>>

OpB_ATask_NoStop ==
    /\ variant = "B" /\ opPc = "a_task" /\ opSleep = 0
    /\ intake_direction' = IF intake_direction = "BACKWARD" THEN "STOPPED"
                           ELSE "BACKWARD"
    /\ opPc' = "r1"
    /\ opSleep' = OpDelay
    /\ UNCHANGED <<variant, cmd, actual, lastTick, taskVars, restVars>>
\* intake_direction = STOPPED or BACKWARD; stopMonitoringTask(); delay(20)
OpB_ATask ==
    /\ variant = "B" /\ opPc = "a_task" /\ opSleep = 0
    /\ intake_direction' = IF intake_direction = "BACKWARD" THEN "STOPPED"
                           ELSE "BACKWARD"
    /\ stopMonitoringTask
    /\ opPc' = "r1"
    /\ opSleep' = OpDelay
    /\ UNCHANGED <<variant, cmd, actual, lastTick, restVars>>

(* -------------------------------- time -------------------------------- *)
Sleeps == {opSleep} \cup {mon[i].sleep : i \in LiveIds}

\* every task is in pros::delay: time passes up to the next wake-up and the
\* motor's actual velocity takes its next value
Tick ==
    /\ variant \in {"A", "B", "C"}
    /\ \A s \in Sleeps : s > 0
    /\ LET d == SetMin(Sleeps)
       IN  /\ opSleep' = opSleep - d
           /\ mon' = [i \in TaskIds |->
                        IF mon[i].live THEN [mon[i] EXCEPT !.sleep = @ - d]
                        ELSE mon[i]]
           /\ hist' = [i \in TaskIds |->
                         IF mon[i].live
                         THEN [hist[i] EXCEPT !.age = Min(@ + d, SpinUpGrace)]
                         ELSE hist[i]]
    /\ actual' \in ActualVelocities
    /\ lastTick' = NoTick
    /\ UNCHANGED <<variant, cmd, intake_monitor_task, created, opPc,
                   intake_direction, stopped, lastStart, restVars>>

(* ------------------------ variant A: part_000 ------------------------- *)
\* the stall condition of variant A's if: no reversing flag
StuckA(current_velocity, target) ==
    Abs(current_velocity) < velocity_threshold /\ target # 0

\* top of the loop: read the velocity and evaluate the stall condition;
\* without a stall the loop's closing pros::delay(20)
MonA_Loop(i) ==
    /\ variant = "A"
    /\ Ready(i) /\ mon[i].pc = "loop"
    /\ LET current_velocity == get_actual_velocity
           stuck == StuckA(current_velocity, get_target_velocity)
       IN  /\ mon' = [mon EXCEPT ![i] =
                        IF stuck THEN [@ EXCEPT !.pc = "reverse"]
                        ELSE [@ EXCEPT !.sleep = MonitorDelay]]
           /\ lastTick' = [by |-> i, cur |-> current_velocity,
                           tgt |-> get_target_velocity,
                           stalled |-> stuck,
                           pending |-> hist[i].await]
           /\ hist' = [hist EXCEPT ![i] =
                         IF stuck THEN [@ EXCEPT !.await = TRUE, !.log = <<>>,
                                                 !.tgt = get_target_velocity]
                         ELSE [@ EXCEPT !.await = FALSE]]
    /\ UNCHANGED <<variant, cmd, actual, intake_monitor_task, created, opPc,
                   opSleep, intake_direction, stopped, lastStart, restVars>>

\* intake_motor.move_relative(-reverse_degrees, reverse_speed)
MonA_Reverse(i) ==
    /\ variant = "A"
    /\ Ready(i) /\ mon[i].pc = "reverse"
    /\ cmd' = MoveRelative(-reverse_degrees, reverse_speed)
    /\ mon' = [mon EXCEPT ![i].pc = "wait"]
    /\ hist' = [hist EXCEPT ![i].log = Append(@, cmd')]
    /\ UNCHANGED <<variant, actual, intake_monitor_task, created, opPc, opSleep,
                   intake_direction, lastTick, stopped, lastStart, restVars>>

\* while (!intake_motor.is_stopped()) pros::delay(10);
MonA_Wait(i) ==
    /\ variant = "A"
    /\ Ready(i) /\ mon[i].pc = "wait"
    /\ mon' = [mon EXCEPT ![i] =
                 IF ~is_stopped
                 THEN [@ EXCEPT !.sleep = WaitDelay]
                 ELSE [@ EXCEPT !.pc = "resume"]]
    /\ UNCHANGED <<variant, cmd, actual, intake_monitor_task, created, opPc,
                   opSleep, intake_direction, hist, lastTick, stopped,
                   lastStart, restVars>>

\* intake_motor.move_velocity(desired_velocity); then pros::delay(20)
MonA_Resume(i) ==
    /\ variant = "A"
    /\ Ready(i) /\ mon[i].pc = "resume"
    /\ cmd' = MoveVelocity(desired_velocity)
    /\ mon' = [mon EXCEPT ![i].pc = "loop", ![i].sleep = MonitorDelay]
    /\ hist' = [hist EXCEPT ![i].log = Append(@, cmd')]
    /\ UNCHANGED <<variant, actual, intake_monitor_task, created, opPc, opSleep,
                   intake_direction, lastTick, stopped, lastStart, restVars>>

MonitorA(i) == MonA_Loop(i) \/ MonA_Reverse(i) \/ MonA_Wait(i) \/ MonA_Resume(i)

\* pros::Task intake_monitor(intake_monitor_task, nullptr, ...): the one
\* monitor of variant A, a local object of opcontrol that is never removed
OpA_Spawn ==
    /\ variant = "A" /\ opPc = "spawn" /\ opSleep = 0
    /\ created' = 1
    /\ mon' = [mon EXCEPT ![1] = NewTaskA]
    /\ hist' = [hist EXCEPT ![1] = NoHist]
    /\ opPc' = "poll"
    /\ UNCHANGED <<variant, cmd, actual, intake_monitor_task, opSleep,
                   intake_direction, lastTick, stopped, lastStart, restVars>>

OpA_Poll_Dropped ==
    /\ variant = "A" /\ opPc = "poll" /\ opSleep = 0
    /\ \E pressed \in BOOLEAN :
         manual' = [pressed |-> pressed,
                    vel |-> IF pressed THEN desired_velocity ELSE 0]
    /\ opSleep' = OpDelay
    /\ UNCHANGED <<variant, cmd, actual, opPc, intake_direction, lastTick,
                   taskVars, envVars, sortVars>>
\* one turn of the loop: move_velocity(desired_velocity) while R1 is held,
\* move_velocity(0) otherwise; pros::delay(20)
OpA_Poll ==
    /\ variant = "A" /\ opPc = "poll" /\ opSleep = 0
    /\ \E pressed \in BOOLEAN :
         /\ cmd' = MoveVelocity(IF pressed THEN desired_velocity ELSE 0)
         /\ manual' = [pressed |-> pressed, vel |-> cmd'.vel]
    /\ opSleep' = OpDelay
    /\ UNCHANGED <<variant, actual, opPc, intake_direction, lastTick, taskVars,
                   envVars, sortVars>>

(* ------------- the operator loop of variant C (lines 297-332) --------- *)
\* R1 held: move_velocity(desired_velocity); released: move_velocity(0)
OpC_Cmd ==
    /\ variant = "C" /\ opPc = "poll" /\ opSleep = 0
    /\ \E pressed \in BOOLEAN :
         /\ pressed /\ intake_monitor_task = NULL => created < MaxStarts
         /\ cmd' = MoveVelocity(IF pressed THEN desired_velocity ELSE 0)
         /\ manual' = [pressed |-> pressed, vel |-> cmd'.vel]
         /\ opPc' = IF pressed THEN "start" ELSE "stop"
    /\ UNCHANGED <<variant, actual, opSleep, intake_direction, lastTick,
                   taskVars, envVars, sortVars>>

\* the inline copy of startMonitoringTask, then pros::delay(20)
OpC_Start ==
    /\ variant = "C" /\ opPc = "start" /\ opSleep = 0
    /\ startMonitoringTask
    /\ opPc' = "poll"
    /\ opSleep' = OpDelay
    /\ UNCHANGED <<variant, cmd, actual, intake_direction, lastTick, restVars>>

\* the inline copy of stopMonitoringTask, then pros::delay(20)
OpC_Stop ==
    /\ variant = "C" /\ opPc = "stop" /\ opSleep = 0
    /\ stopMonitoringTask
    /\ opPc' = "poll"
    /\ opSleep' = OpDelay
    /\ UNCHANGED <<variant, cmd, actual, intake_direction, lastTick, restVars>>

(* ------------------------- the colour classifier ---------------------- *)
Hues == 0 .. MaxHue

detectColor_Strict(h) ==
    IF h > 330 \/ h <= 30 THEN "RED"
    ELSE IF h >= 210 /\ h <= 270 THEN "BLUE"
    ELSE "UNKNOWN"
detectColor(h) ==
    IF h >= 330 \/ h <= 30 THEN "RED"
    ELSE IF h >= 210 /\ h <= 270 THEN "BLUE"
    ELSE "UNKNOWN"

\* AllianceColor detectedColor = detectColor(): one sensor reading classified
DetectColorStep ==
    /\ variant = "D"
    /\ \E h \in Hues :
         /\ hue' = h
         /\ detectedColor' = detectColor(h)
    /\ UNCHANGED <<variant, cmd, actual, opPc, opSleep, intake_direction,
                   lastTick, taskVars, jam, jams, manual, sortVars>>

(* ------------------------- the colour-sort task ----------------------- *)
\* hues the sensor shows while the task runs: both edges of every band
SortHues == {h \in Hues : h % HueStep = 0}

\* the else-if of line 413, reached when the colour is not the alliance's
Opposing_AnyMismatch(c) == c # ALLIANCE_COLOR
Opposing(c) == c # ALLIANCE_COLOR /\ c # "UNKNOWN"

\* one pass of the loop up to its first delay: classify, then either start
\* the eject (delay TRAVEL_DELAY) or fall through to the closing delay
SortDetect_StopAtOnce ==
    /\ variant = "D" /\ sortPc = "detect" /\ sortSleep = 0
    /\ detectedColor' = detectColor(hue)
    /\ IF Opposing(detectedColor')
       THEN /\ sortPc' = "travel"
            /\ sortSleep' = TRAVEL_DELAY
            /\ cmd' = MoveVelocity(0)
            /\ sortHist' = [age |-> 0, log |-> <<[vel |-> 0, at |-> 0]>>,
                            before |-> cmd, opReady |-> opPc = "loop"]
       ELSE /\ sortPc' = "detect"
            /\ sortSleep' = SortDelay
            /\ sortHist' = NoSortHist
            /\ UNCHANGED cmd
    /\ UNCHANGED <<variant, actual, opPc, opSleep, intake_direction,
                   lastTick, taskVars, hue, jam, jams, manual, ALLIANCE_COLOR,
                   colorSortTaskHandle>>
SortDetect ==
    /\ variant = "D" /\ sortPc = "detect" /\ sortSleep = 0
    /\ detectedColor' = detectColor(hue)
    /\ IF Opposing(detectedColor')
       THEN /\ sortPc' = "travel"
            /\ sortSleep' = TRAVEL_DELAY
            /\ sortHist' = [age |-> 0, log |-> <<>>, before |-> cmd,
                            opReady |-> opPc = "loop"]
       ELSE /\ sortPc' = "detect"
            /\ sortSleep' = SortDelay
            /\ sortHist' = NoSortHist
    /\ UNCHANGED <<variant, cmd, actual, opPc, opSleep, intake_direction,
                   lastTick, taskVars, hue, jam, jams, manual, ALLIANCE_COLOR,
                   colorSortTaskHandle>>

\* after the travel delay: intake.move_velocity(0), then delay STOP_DELAY
SortStop_Reread ==
    /\ variant = "D" /\ sortPc = "travel" /\ sortSleep = 0
    /\ detectedColor' = detectColor(hue)
    /\ IF Opposing(detectedColor')
       THEN /\ sortPc' = "travel"
            /\ sortSleep' = TRAVEL_DELAY
            /\ sortHist' = [sortHist EXCEPT !.age = 0]
            /\ UNCHANGED cmd
       ELSE /\ cmd' = MoveVelocity(0)
            /\ sortPc' = "stop"
            /\ sortSleep' = STOP_DELAY
            /\ sortHist' = [sortHist EXCEPT
                              !.log = Append(@, [vel |-> 0, at |-> sortHist.age])]
    /\ UNCHANGED <<variant, actual, opPc, opSleep, intake_direction,
                   lastTick, taskVars, hue, jam, jams, manual,
                   ALLIANCE_COLOR, colorSortTaskHandle>>
SortStop_NoStopDelay ==
    /\ variant = "D" /\ sortPc = "travel" /\ sortSleep = 0
    /\ cmd' = MoveVelocity(0)
    /\ sortPc' = "stop"
    /\ sortSleep' = 0
    /\ sortHist' = [sortHist EXCEPT
                      !.log = Append(@, [vel |-> 0, at |-> sortHist.age])]
    /\ UNCHANGED <<variant, actual, opPc, opSleep, intake_direction,
                   lastTick, taskVars, envVars, manual, ALLIANCE_COLOR,
                   colorSortTaskHandle>>
SortStop ==
    /\ variant = "D" /\ sortPc = "travel" /\ sortSleep = 0
    /\ cmd' = MoveVelocity(0)
    /\ sortPc' = "stop"
    /\ sortSleep' = STOP_DELAY
    /\ sortHist' = [sortHist EXCEPT
                      !.log = Append(@, [vel |-> 0, at |-> sortHist.age])]
    /\ UNCHANGED <<variant, actual, opPc, opSleep, intake_direction,
                   lastTick, taskVars, envVars, manual, ALLIANCE_COLOR,
                   colorSortTaskHandle>>

\* after the stop delay: intake.move_velocity(INTAKE_SPEED), then the
\* closing delay of the loop
SortResume ==
    /\ variant = "D" /\ sortPc = "stop" /\ sortSleep = 0
    /\ cmd' = MoveVelocity(INTAKE_SPEED)
    /\ sortPc' = "detect"
    /\ sortSleep' = SortDelay
    /\ sortHist' = [sortHist EXCEPT
                      !.log = Append(@, [vel |-> INTAKE_SPEED,
                                         at |-> sortHist.age])]
    /\ UNCHANGED <<variant, actual, opPc, opSleep, intake_direction,
                   lastTick, taskVars, envVars, manual, ALLIANCE_COLOR,
                   colorSortTaskHandle>>

\* startColorSortTask(), opcontrol's first statement
OpD_Start ==
    /\ variant = "D" /\ opPc = "start"
    /\ IF colorSortTaskHandle = NULL
       THEN /\ colorSortTaskHandle' = 1
            /\ sortPc' = "detect"
       ELSE UNCHANGED <<colorSortTaskHandle, sortPc>>
    /\ opPc' = "cmd"
    /\ UNCHANGED <<variant, cmd, actual, opSleep, intake_direction, lastTick,
                   taskVars, envVars, manual, ALLIANCE_COLOR, sortSleep,
                   sortHist>>

\* intake.move_velocity(600)
OpD_Cmd ==
    /\ variant = "D" /\ opPc = "cmd"
    /\ cmd' = MoveVelocity(SortOpVelocity)
    /\ manual' = [pressed |-> TRUE, vel |-> SortOpVelocity]
    /\ opPc' = "loop"
    /\ UNCHANGED <<variant, actual, opSleep, intake_direction, lastTick,
                   taskVars, envVars, sortVars>>

\* the body of opcontrol's loop: pros::delay(20)
OpD_Loop ==
    /\ variant = "D" /\ opPc = "loop" /\ opSleep = 0
    /\ opSleep' = OpDelay
    /\ UNCHANGED <<variant, cmd, actual, opPc, intake_direction, lastTick,
                   taskVars, restVars>>

\* time passes to the next wake-up of opcontrol or the colour-sort task;
\* the sensor may show another hue
TickSort ==
    /\ variant = "D" /\ opPc = "loop" /\ sortPc # "none"
    /\ opSleep > 0 /\ sortSleep > 0
    /\ LET d == Min(opSleep, sortSleep)
       IN  /\ opSleep' = opSleep - d
           /\ sortSleep' = sortSleep - d
           /\ sortHist' =
                IF sortPc \in {"travel", "stop"}
                THEN [sortHist EXCEPT
                        !.age = Min(@ + d, TRAVEL_DELAY + STOP_DELAY)]
                ELSE sortHist
    /\ hue' \in SortHues
    /\ UNCHANGED <<variant, cmd, actual, opPc, intake_direction, lastTick,
                   taskVars, detectedColor, jam, jams, manual, ALLIANCE_COLOR,
                   colorSortTaskHandle, sortPc>>

(* --------------------------- the motor model -------------------------- *)
\* A motor that is not faulty, for the claims about termination.  The load
\* is "none", "partial" (the intake creeps at 10 rpm against an object) or
\* "full" (the shaft is held).  A velocity command is followed within one
\* sampling step; a relative move runs at its speed, against the sign of its
\* offset, until its travel time is used up, and then holds position.
JamLevels == {"none", "partial", "full"}

PhysActual(c, j) ==
    IF j = "full" THEN 0
    ELSE IF c.kind = "velocity"
         THEN (IF j = "partial" /\ c.vel > 0 THEN 10 ELSE c.vel)
         ELSE (IF c.left > 0 THEN -Abs(c.vel) ELSE 0)

\* time passes as in Tick, the motor moving as PhysActual says
TickPhys ==
    /\ variant = "A"
    /\ \A s \in Sleeps : s > 0
    /\ LET d == SetMin(Sleeps)
       IN  /\ opSleep' = opSleep - d
           /\ mon' = [i \in TaskIds |->
                        IF mon[i].live THEN [mon[i] EXCEPT !.sleep = @ - d]
                        ELSE mon[i]]
           /\ hist' = [i \in TaskIds |->
                         IF mon[i].live
                         THEN [hist[i] EXCEPT !.age = Min(@ + d, SpinUpGrace)]
                         ELSE hist[i]]
           /\ cmd' = IF cmd.kind = "relative" /\ jam # "full"
                     THEN [cmd EXCEPT !.left = IF @ > d THEN @ - d ELSE 0]
                     ELSE cmd
    /\ actual' = PhysActual(cmd', jam)
    /\ lastTick' = NoTick
    /\ UNCHANGED <<variant, intake_monitor_task, created, opPc,
                   intake_direction, stopped, lastStart, restVars>>

\* an object enters, blocks or leaves the intake
JamEvent ==
    /\ variant = "A"
    /\ jams < MaxJams
    /\ \E j \in JamLevels \ {jam} : jam' = j
    /\ jams' = jams + 1
    /\ UNCHANGED <<variant, cmd, actual, opPc, opSleep, intake_direction,
                   lastTick, taskVars, hue, detectedColor, manual, sortVars>>

(* --------------------------- specifications --------------------------- *)
InitCommon ==
    /\ cmd = MoveVelocity(0)
    /\ actual = 0
    /\ intake_monitor_task = NULL
    /\ mon = [i \in TaskIds |-> NoTask]
    /\ created = 0
    /\ opSleep = 0
    /\ intake_direction = "STOPPED"
    /\ hist = [i \in TaskIds |-> NoHist]
    /\ lastTick = NoTick
    /\ stopped = {}
    /\ lastStart = "none"
    /\ detectedColor = "NONE"
    /\ jam = "none"
    /\ jams = 0
    /\ manual = [pressed |-> FALSE, vel |-> 0]
    /\ colorSortTaskHandle = NULL
    /\ sortPc = "none"
    /\ sortSleep = 0
    /\ sortHist = NoSortHist

\* the colour sensor and the alliance where no colour-sort task runs
NoSorter == hue = 0 /\ ALLIANCE_COLOR = "RED"
InitA == variant = "A" /\ opPc = "spawn" /\ NoSorter /\ InitCommon
InitB == variant = "B" /\ opPc = "r1" /\ NoSorter /\ InitCommon
InitC == variant = "C" /\ opPc = "poll" /\ NoSorter /\ InitCommon
InitD == variant = "D" /\ opPc = "none" /\ NoSorter /\ InitCommon
\* the colour-sort program at the entry of opcontrol; the alliance is red
\* unless an autonomous routine set it to blue
InitSort ==
    /\ variant = "D" /\ opPc = "start"
    /\ ALLIANCE_COLOR \in {"RED", "BLUE"}
    /\ hue \in SortHues
    /\ InitCommon

NextA ==
    \/ OpA_Spawn \/ OpA_Poll
    \/ \E i \in TaskIds : MonitorA(i)
    \/ Tick

NextB ==
    \/ OpB_R1 \/ OpB_R1Task \/ OpB_A \/ OpB_ATask
    \/ \E i \in TaskIds : Monitor(i)
    \/ Tick

NextC ==
    \/ OpC_Cmd \/ OpC_Start \/ OpC_Stop
    \/ \E i \in TaskIds : Monitor(i)
    \/ Tick

NextAPhys ==
    \/ OpA_Spawn \/ OpA_Poll
    \/ \E i \in TaskIds : MonitorA(i)
    \/ TickPhys
    \/ JamEvent

SpecA == InitA /\ [][NextA]_vars
SpecB == InitB /\ [][NextB]_vars
SpecC == InitC /\ [][NextC]_vars

\* the three monitor programs together
Init == InitA \/ InitB \/ InitC
Next ==
    \/ OpA_Spawn \/ OpA_Poll
    \/ OpB_R1 \/ OpB_R1Task \/ OpB_A \/ OpB_ATask
    \/ OpC_Cmd \/ OpC_Start \/ OpC_Stop
    \/ \E i \in TaskIds : MonitorA(i) \/ Monitor(i)
    \/ Tick
Spec == Init /\ [][Next]_vars

\* the classifier alone
SpecColor == InitD /\ [][DetectColorStep]_vars

\* the colour-sort program: opcontrol and colorSortTask
NextSort ==
    \/ OpD_Start \/ OpD_Cmd \/ OpD_Loop
    \/ SortDetect \/ SortStop \/ SortResume
    \/ TickSort
SpecSort == InitSort /\ [][NextSort]_vars

\* variant A with the motor model: every task that can run does run (the
\* PROS scheduler shares the processor among tasks of equal priority), and
\* time passes
FairSpecA ==
    /\ InitA /\ [][NextAPhys]_vars
    /\ WF_vars(TickPhys)
    /\ WF_vars(OpA_Spawn) /\ WF_vars(OpA_Poll)
    /\ \A i \in TaskIds : WF_vars(MonitorA(i))

(* ------------------------------- claims ------------------------------- *)
\* what a command asks of the motor, without the travel time left
CmdOf(c) == [kind |-> c.kind, pos |-> c.pos, vel |-> c.vel]
LogOf(i) == [k \in 1 .. Len(hist[i].log) |-> CmdOf(hist[i].log[k])]

\* C1: while a monitor is in its recovery maneuver (move_relative issued,
\* intake velocity not yet re-issued) the motor's command is still that
\* relative move: no manual set-velocity of the operator loop has replaced it.
C1_ManualIgnoredDuringRecovery ==
    \A i \in TaskIds :
        mon[i].pc \in {"wait", "resume"} =>
            CmdOf(cmd) = [kind |-> "relative", pos |-> -90, vel |-> -100]

\* C2: for every start of the monitor of variants B and C, a monitor that
\* has classified Stalled or is in a reversal was started at least the
\* spin-up grace duration ago.
C2_NoStallBeforeGrace ==
    \A i \in TaskIds :
        /\ variant \in {"B", "C"}
        /\ mon[i].live
        /\ mon[i].pc \in Recovery \/ (lastTick.by = i /\ lastTick.stalled)
        => hist[i].age >= SpinUpGrace

\* a restarted monitor inside its grace window, the motor commanded to run
\* and standing still
C2_Witness ==
    /\ variant \in {"B", "C"}
    /\ created = 2 /\ mon[2].live
    /\ hist[2].age > 0 /\ hist[2].age < SpinUpGrace
    /\ get_target_velocity # 0 /\ actual = 0

\* C3: a monitor that has detected a stall does not detect one again before
\* a tick after that recovery has observed a Running reading.
C3_NoRetrigger == lastTick.stalled => ~lastTick.pending

\* C4: at most one monitor loop instance exists, and it is the one the
\* global pointer names; a start on a running monitor creates none.
C4_AtMostOneMonitor ==
    /\ Cardinality(LiveIds) <= 1
    /\ variant \in {"B", "C"} =>
         LiveIds = IF intake_monitor_task = NULL THEN {}
                   ELSE {intake_monitor_task}

\* variant C's operator loop has called start on a running monitor
C4_Witness ==
    /\ variant = "C" /\ lastStart = "noop"
    /\ intake_monitor_task # NULL /\ Cardinality(LiveIds) = 1

\* C5: a monitor on which stopMonitoringTask has returned is no longer
\* scheduled and takes no further step: its task state and its command log
\* never change again.
C5_StoppedTaskNeverRuns ==
    [][\A i \in stopped :
          ~mon[i].live /\ mon'[i] = mon[i] /\ hist'[i] = hist[i]]_vars

\* a monitor has been stopped and its successor is in a maneuver
C5_Witness ==
    \E i \in stopped :
        /\ intake_monitor_task \notin {NULL, i}
        /\ mon[intake_monitor_task].live
        /\ mon[intake_monitor_task].pc \in Recovery

\* C6: a maneuver that has issued move_relative is never cut off: from the
\* wait loop the monitor only goes on to the resume step and back to the loop.
C6_ManeuverCompletes ==
    [][\A i \in TaskIds :
          mon[i].pc \in {"wait", "resume"} =>
              mon'[i].pc \in {"wait", "resume", "loop"}]_vars

\* C7: a monitor tick that reads a target velocity of 0 classifies no stall
\* and starts no reversal, whatever the actual velocity.
C7_NoStallAtZeroTarget ==
    lastTick.by # NULL /\ lastTick.tgt = 0 =>
        ~lastTick.stalled /\ mon[lastTick.by].pc \notin Recovery

\* a tick with target 0 and an actual velocity under the threshold
C7_Witness ==
    /\ lastTick.by # NULL /\ lastTick.tgt = 0
    /\ Abs(lastTick.cur) < 50
    /\ mon[lastTick.by].pc = "loop"

\* C8: every recovery maneuver terminates: a monitor in the wait loop
\* eventually issues the resume command and is back in its loop.
C8_RecoveryTerminates ==
    \A i \in TaskIds : (mon[i].pc = "wait") ~> (mon[i].pc = "loop")

\* C9: in variant B the monitor's commands of one stall episode are
\* move_relative(-90, -100) and then move_velocity(600), nothing else, and
\* back in the loop the reversing flag is cleared.
C9_EpisodeCommands ==
    \A i \in TaskIds :
        variant = "B" /\ mon[i].live =>
            LET rel == [kind |-> "relative", pos |-> -90, vel |-> -100]
                res == [kind |-> "velocity", pos |-> 0, vel |-> 600]
            IN  /\ mon[i].pc = "reverse" => LogOf(i) = <<>>
                /\ mon[i].pc \in {"wait", "resume"} => LogOf(i) = <<rel>>
                /\ mon[i].pc = "loop" =>
                     /\ LogOf(i) \in {<<>>, <<rel, res>>}
                     /\ ~mon[i].reversing

\* an episode that began with target 600 has run to its end
C9_Witness ==
    \E i \in TaskIds :
        /\ variant = "B" /\ mon[i].live /\ mon[i].pc = "loop"
        /\ Len(hist[i].log) = 2 /\ ~mon[i].reversing
        /\ cmd = MoveVelocity(600)

\* C10: detectColor returns RED exactly for hue >= 330 or hue <= 30, BLUE
\* exactly for 210 <= hue <= 270 and UNKNOWN otherwise; the bands are
\* disjoint and hold their edges.
C10_DetectColorBands ==
    detectedColor # "NONE" =>
        /\ detectedColor \in {"RED", "BLUE", "UNKNOWN"}
        /\ detectedColor = "RED" <=> (hue >= 330 \/ hue <= 30)
        /\ detectedColor = "BLUE" <=> (210 <= hue /\ hue <= 270)
        /\ detectedColor = "UNKNOWN" <=>
             ((30 < hue /\ hue < 210) \/ (270 < hue /\ hue < 330))
        /\ hue \in {0, 15, 345, 330, 30} => detectedColor = "RED"
        /\ hue \in {240, 210, 270} => detectedColor = "BLUE"
        /\ hue \in {90, 31, 209, 271, 329} => detectedColor = "UNKNOWN"

\* the band edge 330 has been classified
C10_Witness == hue = 330 /\ detectedColor = "RED"


\* the colour-sort task is inside an eject window
InEject == sortPc \in {"travel", "stop"}
\* the step is the colour-sort task's classification of a sensor reading
SortTickStep == sortPc = "detect" /\ sortSleep = 0 /\ sortSleep' # 0

\* C11: from the classification of an opposing colour until the intake speed
\* is re-issued, no step of the program takes a new classification or
\* restarts the eject window: the classified colour, the command recorded at
\* the start of the window and the window's clock are those of the one eject,
\* whatever hue the sensor shows meanwhile.
C11_NoNestedEject ==
    [][InEject =>
         /\ detectedColor' = detectedColor
         /\ sortHist'.before = sortHist.before
         /\ sortHist'.age >= sortHist.age
         /\ Len(sortHist'.log) >= Len(sortHist.log)]_vars

\* the intake is stopped for an eject while the sensor already shows a
\* colour of another class
C11_Witness ==
    /\ sortPc = "stop"
    /\ sortHist.age > TRAVEL_DELAY
    /\ detectColor(hue) # detectedColor

\* C12: the commands the colour-sort task has issued in an eject are, in
\* order, velocity 0 no earlier than the travel delay after the
\* classification and the intake speed no earlier than the stop delay after
\* that; one command while the intake is stopped, two once the eject is over,
\* never more.
C12_EjectOrder ==
    LET log == sortHist.log
    IN  /\ Len(log) <= 2
        /\ sortPc = "stop" => Len(log) = 1
        /\ sortPc = "detect" => Len(log) \in {0, 2}
        /\ Len(log) >= 1 => log[1].vel = 0 /\ log[1].at >= TRAVEL_DELAY
        /\ Len(log) = 2 =>
              /\ log[2].vel = INTAKE_SPEED
              /\ log[2].at >= log[1].at + STOP_DELAY

\* an eject that has run to its end
C12_Witness ==
    /\ sortPc = "detect"
    /\ Len(sortHist.log) = 2
    /\ cmd = MoveVelocity(INTAKE_SPEED)

\* C13: a tick of the colour-sort task that classifies UNKNOWN or the
\* alliance colour starts no eject and leaves the motor's command as it was.
C13_NoEjectOnUnknownOrAlly ==
    [][SortTickStep /\ detectedColor' \in {"UNKNOWN", ALLIANCE_COLOR} =>
         /\ sortPc' = "detect"
         /\ sortHist'.log = <<>>
         /\ cmd' = cmd]_vars

\* the intake runs at opcontrol's speed and the last tick saw no colour
C13_Witness ==
    /\ sortPc = "detect" /\ sortSleep = SortDelay
    /\ detectedColor = "UNKNOWN"
    /\ ALLIANCE_COLOR = "BLUE"
    /\ cmd = MoveVelocity(SortOpVelocity)

\* C18: once an eject that began after opcontrol set the intake speed is
\* over, the motor's command is again the one it held when the eject began.
C18_EjectRestoresVelocity ==
    /\ sortPc = "detect"
    /\ Len(sortHist.log) = 2
    /\ sortHist.opReady
    => cmd = sortHist.before

\* the travel wait of an eject: classified, nothing commanded yet
TravelWait == sortPc = "travel" /\ sortHist.log = <<>>

NoRecovery == \A i \in TaskIds : mon[i].live => mon[i].pc \notin Recovery
\* the step is the operator loop issuing its motor command
OpCommandStep ==
    \/ variant = "A" /\ opPc = "poll" /\ opSleep = 0 /\ opSleep' = OpDelay
    \/ variant = "B" /\ opPc = "r1" /\ opPc' = "r1_task"
    \/ variant = "B" /\ opPc = "a" /\ opPc' = "a_task"
    \/ variant = "C" /\ opPc = "poll" /\ opPc' \in {"start", "stop"}
\* the velocity that command stands for: the hold programs run the intake
\* while R1 is held; the toggle program switches between stop and run
ManualValue ==
    IF variant = "B"
    THEN IF opPc = "r1"
         THEN (IF intake_direction = "FORWARD" THEN 0 ELSE DESIRED_VELOCITY)
         ELSE (IF intake_direction = "BACKWARD" THEN 0 ELSE -DESIRED_VELOCITY)
    ELSE IF manual'.pressed THEN desired_velocity ELSE 0

\* C14: a command of the operator loop issued while no monitor is in a
\* recovery maneuver is the motor's command right after the step.
C14_ManualTakesEffect ==
    [][OpCommandStep /\ NoRecovery => cmd' = MoveVelocity(ManualValue)]_vars

\* a monitor has finished a recovery and the operator, releasing R1 after
\* it, has stopped the intake
C14_Witness ==
    /\ variant = "A" /\ opPc = "poll" /\ opSleep = OpDelay
    /\ NoRecovery
    /\ \E i \in TaskIds : mon[i].live /\ Len(hist[i].log) = 2
    /\ ~manual.pressed
    /\ cmd = MoveVelocity(0)

\* C16: a monitor tick made with a non-zero target velocity classifies the
\* motor as stalled exactly when the actual velocity lies strictly between
\* -threshold and threshold; at either threshold it is running.
C16_StallIffBelowThreshold ==
    lastTick.by # NULL /\ lastTick.tgt # 0 =>
        (lastTick.stalled <=>
            (-Threshold < lastTick.cur /\ lastTick.cur < Threshold))

\* a tick that read exactly -threshold and found the motor running
C16_Witness ==
    /\ lastTick.by # NULL /\ lastTick.tgt # 0
    /\ lastTick.cur = -Threshold
    /\ ~lastTick.stalled

\* the monitor task exists and is the only task in the scheduler
MonitorRunning ==
    intake_monitor_task # NULL /\ LiveIds = {intake_monitor_task}
NoMonitor == intake_monitor_task = NULL /\ LiveIds = {}

\* C20: in the toggle program, whenever the operator loop is not in the
\* middle of a press, the monitor runs exactly when intake_direction is
\* FORWARD, there is none when it is STOPPED or BACKWARD, and the last manual
\* velocity is the one of the direction: 0, DESIRED_VELOCITY or its negative.
C20_MonitorIffForward ==
    variant = "B" /\ opPc \in {"r1", "a"} =>
        /\ intake_direction = "FORWARD" => MonitorRunning
        /\ intake_direction # "FORWARD" => NoMonitor
        /\ manual.vel = (IF intake_direction = "FORWARD" THEN DESIRED_VELOCITY
                         ELSE IF intake_direction = "BACKWARD"
                              THEN -DESIRED_VELOCITY
                              ELSE 0)

\* R1 pressed twice from STOPPED: a monitor was started and stopped again
C20_Witness ==
    /\ variant = "B" /\ opPc = "a"
    /\ intake_direction = "STOPPED"
    /\ lastStart # "none" /\ stopped # {}
    /\ manual = [pressed |-> TRUE, vel |-> 0]
    /\ NoMonitor

\* C15: a monitor that has left its wait loop and is about to re-issue the
\* intake velocity finds the relative move carried out: no travel is left.
C15_ResumeAfterReversal ==
    \A i \in TaskIds :
        mon[i].live /\ mon[i].pc = "resume" /\ cmd.kind = "relative"
        => cmd.left = 0

\* the step is monitor i re-issuing the intake velocity
ResumeStep(i) == mon[i].live /\ mon[i].pc = "resume" /\ mon'[i].pc = "loop"

\* C17: the velocity a monitor re-issues at the end of a recovery is the one
\* that was the motor's target when the stall was detected, and where the
\* operator loop has replaced the relative move by a velocity command of its
\* own during the maneuver, the motor's command stays that one.
C17_ResumeKeepsOperatorCommand ==
    [][\A i \in TaskIds :
         ResumeStep(i) =>
             /\ cmd'.vel = hist[i].tgt
             /\ cmd.kind = "velocity" => cmd' = cmd]_vars


====
